---------------------------- MODULE Spec2Model ----------------------------
(***************************************************************************)
(* DropZone (src/src/main.rs): the upload and message handlers behind the  *)
(* body-size guard, as a state machine.  A request is a lazy, forward-only *)
(* sequence of multipart parts; each await of a handler is one step.       *)
(* Strings are sequences of one-character strings, payloads are sequences  *)
(* of bytes, each written as a string.                                      *)
(***************************************************************************)
EXTENDS Integers, Sequences, FiniteSets, TLC

VARIABLES
    main,        \* main: the startup step it is at, "serve" or "exited"
    panicked,    \* main: a startup step failed
    max_size,    \* main: DROPZONE_MAX_BODY_SIZE, None when unset
    disk,        \* the upload directory: destination name -> file content
    startup,     \* the names in the upload directory when the server started
    pc,          \* per request: position of its handler
    route,       \* per request: "upload" or "message"
    announced,   \* per request: the body length was given in Content-Length
    over,        \* per request: the body was found to exceed max_size
    seen,        \* per request: the parts next_field has yielded so far
    consumed,    \* per request: body bytes read from the connection so far
    undrained,   \* per request: payload bytes of the current field not yet read
    status,      \* per request: response status, 0 while there is none
    cause,       \* per request: how the part loop ended
    writes,      \* per request: the fs::write calls made, with their result
    log,         \* per request: the FILE lines printed
    events,      \* per request: the MESSAGE notifications printed
    texts        \* per request: the results of field.text(), None for an Err

vars == <<main, panicked, max_size, disk, startup, pc, route, announced, over,
          seen, consumed, undrained, status, cause, writes, log, events,
          texts>>

---------------------------------------------------------------------------
(* Bounds of the model *)

NumReqs == 2        \* requests in flight in the concurrent specification
MaxParts == 3       \* parts of one request (single-request specification)
MaxConcParts == 2   \* parts of request 1 in the concurrent specification
FrameLen == 1       \* body bytes taken by the boundary and headers of a part
Limit == 3          \* the configured maximum body size, when one is set
MaxBody == 4        \* largest Content-Length a client announces
MaxNameParts == 2   \* parts of the request in the file-name specification

(* Program constants *)

TokenLen == 8       \* &Uuid::new_v4().to_string()[..8]
OK == 200
INTERNAL_SERVER_ERROR == 500
PAYLOAD_TOO_LARGE == 413

\* Option: None, or Some(x) holding x.
None == <<>>
Some(x) == <<x>>
Get(o) == o[1]
Reqs == 1..NumReqs

---------------------------------------------------------------------------
(* Strings *)

Space == " "
LetterH == "h"
BadByte == "0xFF"   \* a byte no UTF-8 text contains

DupTxt == <<"d", "u", "p", ".", "t", "x", "t">>
PhotoJpg == <<"p", "h", "o", "t", "o", ".", "j", "p", "g">>
Empty == <<>>

\* The largest and the smallest element of a set of numbers.
Max(S) == CHOOSE x \in S : \A y \in S : y <= x
Min(S) == CHOOSE x \in S : \A y \in S : x <= y

\* The piece of path p that starts at position i and runs up to the next
\* '/' or the end of p.
Piece(p, i) ==
    SubSeq(p, i, Min({j \in i..Len(p) : j = Len(p) \/ p[j + 1] = "/"}))

\* Where the components of path p start: the pieces between '/' that are
\* neither empty nor "." (Path::components drops both).
Components(p) ==
    {i \in 1..Len(p) : /\ p[i] # "/"
                       /\ i = 1 \/ p[i - 1] = "/"
                       /\ Piece(p, i) # <<".">>}

\* Path::file_name: the final component, None when there is none or it is "..".
file_name(p) ==
    IF Components(p) = {} THEN None
    ELSE IF Piece(p, Max(Components(p))) = <<".", ".">> THEN None
    ELSE Some(Piece(p, Max(Components(p))))

\* The file name f split at its last '.': <<before, after>>, and <<f>> when f
\* has no '.' or only a leading one.
SplitAtDot(f) ==
    LET dot == Max({0} \cup {i \in 1..Len(f) : f[i] = "."})
    IN  IF dot <= 1 THEN <<f>>
        ELSE <<SubSeq(f, 1, dot - 1), SubSeq(f, dot + 1, Len(f))>>

\* Path::file_stem: the file name up to its last '.', the whole file name
\* when it has no '.' or only a leading one.
file_stem(p) ==
    IF file_name(p) = None THEN None
    ELSE Some(SplitAtDot(Get(file_name(p)))[1])

\* Path::extension: what follows the last '.', None when file_stem is the
\* whole file name.
extension(p) ==
    IF file_name(p) = None THEN None
    ELSE IF Len(SplitAtDot(Get(file_name(p)))) = 1 THEN None
    ELSE Some(SplitAtDot(Get(file_name(p)))[2])

\* str::trim on decoded text: leading and trailing whitespace removed.
RECURSIVE TrimStart(_)
TrimStart(t) ==
    IF t # <<>> /\ t[1] = Space THEN TrimStart(Tail(t)) ELSE t

RECURSIVE TrimEnd(_)
TrimEnd(t) ==
    IF t # <<>> /\ t[Len(t)] = Space THEN TrimEnd(SubSeq(t, 1, Len(t) - 1))
    ELSE t

\* Mutant: only the leading whitespace is removed.
trimStartOnly(t) == TrimStart(t)

trim(t) == TrimEnd(TrimStart(t))

\* The bytes are valid UTF-8 unless one of them is invalid.
IsUtf8(d) == \A i \in 1..Len(d) : d[i] # BadByte

\* A lossy decoding: every invalid byte becomes the replacement character.
Replacement == "U+FFFD"
Lossy(d) == [i \in 1..Len(d) |-> IF d[i] = BadByte THEN Replacement ELSE d[i]]

\* Field::text() on bytes that were read: Ok(text) for valid UTF-8; for
\* invalid bytes the multipart library either returns Err or decodes them
\* lossily (its code is not in the repository: both outcomes are kept).
TextResults(d) ==
    IF IsUtf8(d) THEN {Some(d)} ELSE {None, Some(Lossy(d))}

---------------------------------------------------------------------------
(* Inputs *)

\* Version-4 UUIDs in their hyphenated form, as Uuid::new_v4().to_string()
\* gives them.  The first two differ only after their first group.
Hyphenated(a, b, c, d, e) ==
    a \o <<"-">> \o b \o <<"-">> \o c \o <<"-">> \o d \o <<"-">> \o e

Uuids ==
    LET g1 == <<"0", "a", "1", "b", "2", "c", "3", "d">>
        g2 == <<"f", "f", "f", "f", "f", "f", "f", "f">>
        g4 == <<"4", "e", "5", "f">>
        gx == <<"4", "0", "0", "0">>
        g12 == <<"0", "1", "2", "3", "4", "5", "6", "7", "8", "9", "a", "b">>
    IN  { Hyphenated(g1, g4, g4, <<"8", "0", "0", "0">>, g12),
          Hyphenated(g1, gx, gx, <<"9", "0", "0", "0">>, g12),
          Hyphenated(g2, g4, g4, <<"a", "0", "0", "0">>, g12) }

\* Mutant: the whole UUID is the token.
TokenWhole(uuid) == uuid

\* The token of a destination name: the first characters of the UUID.
Token(uuid) == SubSeq(uuid, 1, TokenLen)

MessageName == <<"m", "e", "s", "s", "a", "g", "e">>
NoteName == <<"n", "o", "t", "e">>
FileField == <<"f", "i", "l", "e">>

Part(n, f, d) == [name |-> n, file_name |-> f, data |-> d]

\* Parts that carry a file name (the second repeats the first one's name
\* with another payload, the last has an empty file name).
FileParts == { Part(FileField, Some(DupTxt), <<LetterH>>),
               Part(FileField, Some(DupTxt), <<Space, LetterH>>),
               Part(FileField, Some(PhotoJpg), <<LetterH>>),
               Part(FileField, Some(Empty), <<LetterH>>) }

\* Parts without a file name: text fields.
TextParts == { Part(MessageName, None, <<Space, LetterH, Space>>),
               Part(MessageName, None, <<Space>>),
               Part(MessageName, None, <<BadByte>>),
               Part(NoteName, None, <<LetterH>>) }

AllParts == FileParts \cup TextParts

\* The parts of the concurrent specification: a file name with two
\* payloads, and another file name.
ConcParts == { Part(FileField, Some(DupTxt), <<LetterH>>),
              Part(FileField, Some(DupTxt), <<Space>>),
              Part(FileField, Some(PhotoJpg), <<LetterH>>) }

\* File names a client may send: plain, without extension, with a leading
\* dot, with two dots, with a trailing dot, under "..", absolute, with a
\* trailing slash, and ".." itself.
NoExt == <<"n">>
DotRc == <<".", "r", "c">>
TwoDots == <<"a", ".", "b", ".", "c">>
TrailingDot == <<"x", ".">>
UnderParent == <<".", ".", "/", "x", ".", "y">>
Absolute == <<"/", "e", "/", "p">>
TrailingSlash == <<"d", "/">>
Parent == <<".", ".">>
FileNames == { PhotoJpg, NoExt, DotRc, TwoDots, TrailingDot, UnderParent,
               Absolute, TrailingSlash, Parent }

\* The parts of the file-name specification: one per file name.
NameParts == { Part(FileField, Some(f), <<LetterH>>) : f \in FileNames }

\* The parts of the fair specification: one with a file name and one named
\* "message".
LiveParts == { Part(FileField, Some(DupTxt), <<LetterH>>),
              Part(MessageName, None, <<Space, LetterH, Space>>) }

\* What the upload directory may hold when the server starts.
OldFile == <<"d", "u", "p", "-">> \o
           <<"0", "a", "1", "b", "2", "c", "3", "d">> \o <<".", "t", "x", "t">>
NoFiles == [n \in {} |-> <<>>]
InitialDisks == { NoFiles, (OldFile :> <<BadByte>>) }

---------------------------------------------------------------------------
(* The pieces of the handlers *)

\* Mutant: only a missing file name is skipped, an empty one is written.
FileBearingIfPresent(p) == p.file_name # None

\* handle_upload: a part is written when its file name is present and
\* non-empty, and skipped otherwise.
FileBearing(p) == p.file_name # None /\ Get(p.file_name) # <<>>

\* Option::unwrap_or_default for strings, and Option::map(format!(".{}")).
unwrap_or_default(o) == IF o = None THEN <<>> ELSE Get(o)
Prefixed(pre, o) == IF o = None THEN None ELSE Some(pre \o Get(o))

\* Mutant: the destination name is built from the file name as the client
\* sent it.
uniqueOfFileName(fname, token) == fname \o <<"-">> \o token

\* Mutant: the destination name without the token.
uniqueNoToken(fname, token) ==
    LET stem == unwrap_or_default(file_stem(fname))
        ext == unwrap_or_default(Prefixed(<<".">>, extension(fname)))
    IN  stem \o <<"-">> \o ext

\* handle_upload: the destination name, "{stem}-{token}{ext}".
unique(fname, token) ==
    LET stem == unwrap_or_default(file_stem(fname))
        ext == unwrap_or_default(Prefixed(<<".">>, extension(fname)))
    IN  stem \o <<"-">> \o token \o ext

\* main: the upload directory, and PathBuf::join: an absolute path replaces
\* the base, any other path is appended to it.
upload_dir == <<"/", "u">>
join(base, path) ==
    IF path # <<>> /\ path[1] = "/" THEN path
    ELSE base \o <<"/">> \o path

\* unique for the UUID drawn, tabulated over the file names the parts of
\* the specifications carry and the UUIDs.
Sent ==
    {Get(p.file_name) : p \in {q \in AllParts \cup ConcParts \cup NameParts
                                       \cup LiveParts : q.file_name # None}}
Destination == [f \in Sent, uuid \in Uuids |-> unique(f, Token(uuid))]

\* Mutant: the file is created but the payload is not written to it.
WriteFileEmpty(d, name, data) == (name :> <<>>) @@ d

\* fs::write returning Ok: the file is created or truncated, then holds data.
WriteFile(d, name, data) == (name :> data) @@ d

\* Mutant: a failed write rolls the upload directory back to empty.
FailedWriteRollback(d, name, data) == { [n \in {} |-> <<>>] }

\* fs::write returning Err: the directory is as before (the open failed), or
\* the file was created or truncated and holds a proper prefix of data.
FailedWrite(d, name, data) ==
    {d} \cup { (name :> SubSeq(data, 1, n)) @@ d : n \in 0..(Len(data) - 1) }

\* Mutant: the line carries the length of the name, not of the payload.
FileLineOfName(name, data) == [name |-> name, size |-> Len(name)]

\* handle_upload: the FILE line, with the destination name and data.len()
\* (the timestamp is left out).
FileLine(name, data) == [name |-> name, size |-> Len(data)]

\* Mutants: a failed read is passed over; the loop's end is an error.
ReadErrorIgnored == OK
LoopEndFails == INTERNAL_SERVER_ERROR

\* The statuses handle_upload and handle_message return.
ReadErrorStatus == INTERNAL_SERVER_ERROR
WriteErrorStatus == INTERNAL_SERVER_ERROR
LoopEndStatus == OK
MessageStatus == OK

\* handle_message: the field whose text is read.
IsMessage(p) == p.name = <<"m", "e", "s", "s", "a", "g", "e">>

\* handle_message: what is printed for the result of field.text(): the
\* trimmed text when the result is Ok and the trimmed text is not empty,
\* nothing otherwise.
Notification(res) ==
    IF res = None THEN <<>>
    ELSE IF trim(Get(res)) = <<>> THEN <<>>
    ELSE <<trim(Get(res))>>

---------------------------------------------------------------------------
(* The body-size guard *)

\* RequestBodyLimitLayer: a request whose Content-Length is above the limit
\* is answered 413 and the router is not called.
TooLarge(len) ==
    IF len = None \/ max_size = None THEN FALSE ELSE Get(len) > Get(max_size)

\* Mutant: a request that failed with a server error stops the reads of the
\* other requests.
CanReadUnlessPoisoned(r, n) ==
    IF \E q \in Reqs : q # r /\ status[q] = INTERNAL_SERVER_ERROR THEN FALSE
    ELSE IF max_size = None THEN TRUE
    ELSE consumed[r] + n <= Get(max_size)

\* The limited body: reading n more bytes stays within the limit.
CanRead(r, n) ==
    IF max_size = None THEN TRUE ELSE consumed[r] + n <= Get(max_size)

\* Why a read of the body returns Err: the stream is broken or malformed, or
\* (no Content-Length, limit set) the chunk read crosses the limit.
ReadErrors(r) ==
    {"broken"} \cup
    (IF max_size # None /\ ~announced[r] THEN {"limit"} ELSE {})

ContentLengths == {None} \cup {Some(n) : n \in 0..MaxBody}

---------------------------------------------------------------------------
(* Initial state *)

Start(sizes, disks) ==
    /\ main = "create_dir_all"
    /\ panicked = FALSE
    /\ max_size \in sizes
    /\ disk \in disks
    /\ startup = DOMAIN disk
    /\ pc = [r \in Reqs |-> "idle"]
    /\ route = [r \in Reqs |-> "none"]
    /\ announced = [r \in Reqs |-> FALSE]
    /\ over = [r \in Reqs |-> FALSE]
    /\ seen = [r \in Reqs |-> <<>>]
    /\ consumed = [r \in Reqs |-> 0]
    /\ undrained = [r \in Reqs |-> 0]
    /\ status = [r \in Reqs |-> 0]
    /\ cause = [r \in Reqs |-> "none"]
    /\ writes = [r \in Reqs |-> <<>>]
    /\ log = [r \in Reqs |-> <<>>]
    /\ events = [r \in Reqs |-> <<>>]
    /\ texts = [r \in Reqs |-> <<>>]

Init == Start({None, Some(Limit)}, InitialDisks)

InitConc == Start({None}, {NoFiles})

---------------------------------------------------------------------------
(* Steps *)

\* Mutant: the handler goes back to the head of its loop instead of
\* returning.
ReturnContinues(r, st, why) ==
    /\ pc' = [pc EXCEPT ![r] = "next_field"]
    /\ status' = [status EXCEPT ![r] = st]
    /\ cause' = [cause EXCEPT ![r] = why]

\* The handler of r returns st; why is how its loop ended.
Return(r, st, why) ==
    /\ pc' = [pc EXCEPT ![r] = "done"]
    /\ status' = [status EXCEPT ![r] = st]
    /\ cause' = [cause EXCEPT ![r] = why]

\* Mutant: a failed startup step is passed over.
expectLenient(ok, next) == next

\* Result::expect and Result::unwrap in main: the value when the step
\* returned Ok, a panic that ends the process when it returned Err.
expect(ok, next) == IF ok THEN next ELSE "exited"

\* main, up to the point where the server accepts connections: the upload
\* directory is created, then (--no-tls) the port is bound, or the
\* certificate and key are loaded and then the port is bound.
Main ==
    /\ \E ok \in BOOLEAN :
         /\ \/ /\ main = "create_dir_all"
               /\ main' = expect(ok, "listen")
            \/ /\ main = "listen"
               /\ \E no_tls \in BOOLEAN :
                    main' = IF no_tls THEN expect(ok, "serve")
                            ELSE expect(ok, "bind_rustls")
            \/ /\ main = "bind_rustls"
               /\ main' = expect(ok, "serve")
         /\ panicked' = (panicked \/ ~ok)
    /\ UNCHANGED <<max_size, disk, startup, pc, route, announced, over, seen,
                   consumed, undrained, status, cause, writes, log, events,
                   texts>>

\* A request arrives: the guard rejects it or the router dispatches it.
Arrive(r, routes, lengths) ==
    /\ main = "serve"
    /\ pc[r] = "idle"
    /\ \E rt \in routes, len \in lengths :
         /\ route' = [route EXCEPT ![r] = rt]
         /\ announced' = [announced EXCEPT ![r] = len # None]
         /\ IF TooLarge(len)
            THEN /\ pc' = [pc EXCEPT ![r] = "rejected"]
                 /\ status' = [status EXCEPT ![r] = PAYLOAD_TOO_LARGE]
                 /\ over' = [over EXCEPT ![r] = TRUE]
            ELSE /\ pc' = [pc EXCEPT ![r] = "next_field"]
                 /\ UNCHANGED <<status, over>>
    /\ UNCHANGED <<main, panicked, max_size, disk, startup, seen, consumed,
                   undrained, cause, writes, log, events, texts>>

\* multipart.next_field() yields part p: the rest of the previous field and
\* the headers of p are read.
Yield(r, p, next) ==
    /\ CanRead(r, undrained[r] + FrameLen)
    /\ announced[r] => CanRead(r, undrained[r] + FrameLen + Len(p.data))
    /\ seen' = [seen EXCEPT ![r] = Append(@, p)]
    /\ consumed' = [consumed EXCEPT ![r] = @ + undrained[r] + FrameLen]
    /\ undrained' = [undrained EXCEPT ![r] = Len(p.data)]
    /\ pc' = [pc EXCEPT ![r] = next]
    /\ UNCHANGED <<status, cause, over>>

\* multipart.next_field() returns Ok(None): the body ended.
EndOfParts(r, st) ==
    /\ CanRead(r, undrained[r])
    /\ consumed' = [consumed EXCEPT ![r] = @ + undrained[r]]
    /\ undrained' = [undrained EXCEPT ![r] = 0]
    /\ Return(r, st, "eof")
    /\ UNCHANGED <<seen, over>>

\* Mutant: a framing error is answered 400 Bad Request.
FieldErrorBadRequest(r, st) ==
    /\ \E why \in ReadErrors(r) :
         over' = [over EXCEPT ![r] = (why = "limit")]
    /\ Return(r, 400, "frame_err")
    /\ UNCHANGED <<seen, consumed, undrained>>

\* multipart.next_field() returns Err.
FieldError(r, st) ==
    /\ \E why \in ReadErrors(r) :
         over' = [over EXCEPT ![r] = (why = "limit")]
    /\ Return(r, st, "frame_err")
    /\ UNCHANGED <<seen, consumed, undrained>>

\* handle_upload, the loop head: while let Ok(Some(field)) = next_field().
UploadNextField(r, parts, cap) ==
    /\ pc[r] = "next_field"
    /\ route[r] = "upload"
    /\ \/ \E p \in parts :
            /\ Len(seen[r]) < cap
            /\ Yield(r, p, IF FileBearing(p) THEN "bytes" ELSE "next_field")
       \/ EndOfParts(r, LoopEndStatus)
       \/ FieldError(r, LoopEndStatus)
    /\ UNCHANGED <<main, panicked, max_size, disk, startup, route, announced,
                   writes, log, events, texts>>

\* handle_upload: field.bytes().
UploadBytes(r) ==
    /\ pc[r] = "bytes"
    /\ \/ /\ CanRead(r, undrained[r])
          /\ consumed' = [consumed EXCEPT ![r] = @ + undrained[r]]
          /\ undrained' = [undrained EXCEPT ![r] = 0]
          /\ pc' = [pc EXCEPT ![r] = "write"]
          /\ UNCHANGED <<status, cause, over>>
       \/ /\ \E why \in ReadErrors(r) :
               over' = [over EXCEPT ![r] = (why = "limit")]
          /\ Return(r, ReadErrorStatus, "read_err")
          /\ UNCHANGED <<consumed, undrained>>
    /\ UNCHANGED <<main, panicked, max_size, disk, startup, route, announced,
                   seen, writes, log, events, texts>>

\* Mutant: a failed write is reported and the loop goes on.
WriteErrorContinues(r) ==
    /\ pc' = [pc EXCEPT ![r] = "next_field"]
    /\ UNCHANGED <<status, cause>>

\* handle_upload: the Err arm of the match on fs::write.
WriteError(r) == Return(r, WriteErrorStatus, "write_err")

\* handle_upload: the destination name is built and fs::write runs.
UploadWrite(r) ==
    /\ pc[r] = "write"
    /\ LET p == seen[r][Len(seen[r])]
       IN  \E uuid \in Uuids :
             LET token == Token(uuid)
                 name == Destination[Get(p.file_name), uuid]
                 call == [part |-> Len(seen[r]), name |-> name,
                          dest |-> join(upload_dir, name),
                          token |-> token, data |-> p.data]
             IN  \/ /\ disk' = WriteFile(disk, name, p.data)
                    /\ writes' = [writes EXCEPT ![r] =
                          Append(@, call @@ [ok |-> TRUE])]
                    /\ log' = [log EXCEPT ![r] =
                          Append(@, FileLine(name, p.data))]
                    /\ pc' = [pc EXCEPT ![r] = "next_field"]
                    /\ UNCHANGED <<status, cause>>
                 \/ /\ disk' \in FailedWrite(disk, name, p.data)
                    /\ writes' = [writes EXCEPT ![r] =
                          Append(@, call @@ [ok |-> FALSE])]
                    /\ WriteError(r)
                    /\ UNCHANGED log
    /\ UNCHANGED <<main, panicked, max_size, startup, route, announced, over,
                   seen, consumed, undrained, events, texts>>

\* handle_message, the loop head.
MessageNextField(r, parts, cap) ==
    /\ pc[r] = "next_field"
    /\ route[r] = "message"
    /\ \/ \E p \in parts :
            /\ Len(seen[r]) < cap
            /\ Yield(r, p, IF IsMessage(p) THEN "text" ELSE "next_field")
       \/ EndOfParts(r, MessageStatus)
       \/ FieldError(r, MessageStatus)
    /\ UNCHANGED <<main, panicked, max_size, disk, startup, route, announced,
                   writes, log, events, texts>>

\* Mutant: an Err of field.text() is answered with a server error, as
\* handle_upload answers an Err of field.bytes().
MessageTextStrict(r) ==
    /\ pc[r] = "text"
    /\ LET i == Len(seen[r])
       IN  \/ /\ CanRead(r, undrained[r])
              /\ consumed' = [consumed EXCEPT ![r] = @ + undrained[r]]
              /\ undrained' = [undrained EXCEPT ![r] = 0]
              /\ \E res \in TextResults(seen[r][i].data) :
                    /\ texts' = [texts EXCEPT ![r] =
                          Append(@, [part |-> i, text |-> res])]
                    /\ events' = [events EXCEPT ![r] = @ \o Notification(res)]
              /\ pc' = [pc EXCEPT ![r] = "next_field"]
              /\ UNCHANGED <<over, status, cause>>
           \/ /\ \E why \in ReadErrors(r) :
                    over' = [over EXCEPT ![r] = (why = "limit")]
              /\ texts' = [texts EXCEPT ![r] =
                    Append(@, [part |-> i, text |-> None])]
              /\ Return(r, INTERNAL_SERVER_ERROR, "read_err")
              /\ UNCHANGED <<consumed, undrained, events>>
    /\ UNCHANGED <<main, panicked, max_size, disk, startup, route, announced,
                   seen, writes, log>>

\* handle_message: field.text(), trim and print; an Err is passed over.
MessageText(r) ==
    /\ pc[r] = "text"
    /\ LET i == Len(seen[r])
       IN  \/ /\ CanRead(r, undrained[r])
              /\ consumed' = [consumed EXCEPT ![r] = @ + undrained[r]]
              /\ undrained' = [undrained EXCEPT ![r] = 0]
              /\ \E res \in TextResults(seen[r][i].data) :
                    /\ texts' = [texts EXCEPT ![r] =
                          Append(@, [part |-> i, text |-> res])]
                    /\ events' = [events EXCEPT ![r] = @ \o Notification(res)]
              /\ UNCHANGED over
           \/ /\ \E why \in ReadErrors(r) :
                    over' = [over EXCEPT ![r] = (why = "limit")]
              /\ texts' = [texts EXCEPT ![r] =
                    Append(@, [part |-> i, text |-> None])]
              /\ UNCHANGED <<consumed, undrained, events>>
    /\ pc' = [pc EXCEPT ![r] = "next_field"]
    /\ UNCHANGED <<main, panicked, max_size, disk, startup, route, announced,
                   seen, status, cause, writes, log>>

---------------------------------------------------------------------------
(* Specifications *)

\* One request, either route, any part.
Next ==
    \/ Main
    \/ Arrive(1, {"upload", "message"}, ContentLengths)
    \/ UploadNextField(1, AllParts, MaxParts)
    \/ UploadBytes(1)
    \/ UploadWrite(1)
    \/ MessageNextField(1, AllParts, MaxParts)
    \/ MessageText(1)

Spec == Init /\ [][Next]_vars

\* Several upload requests in flight, their steps interleaved: request 1
\* carries up to MaxConcParts parts, request 2 at most one, and any further
\* request is an upload with no part.
ConcCap(r) == IF r = 1 THEN MaxConcParts ELSE IF r = 2 THEN 1 ELSE 0

NextConc ==
    \/ Main
    \/ \E r \in Reqs :
        \/ Arrive(r, {"upload"}, {None})
        \/ UploadNextField(r, ConcParts, ConcCap(r))
        \/ UploadBytes(r)
        \/ UploadWrite(r)

SpecConc == InitConc /\ [][NextConc]_vars

\* One upload request whose parts carry the file names of FileNames.
NextNames ==
    \/ Main
    \/ Arrive(1, {"upload"}, {None})
    \/ UploadNextField(1, NameParts, MaxNameParts)
    \/ UploadBytes(1)
    \/ UploadWrite(1)

SpecNames == InitConc /\ [][NextNames]_vars

\* Several requests of either route in flight, each handler being polled
\* again whenever it can take a step (the runtime schedules every ready
\* task, and the client sends the parts it has announced).
Handler(r) ==
    \/ UploadNextField(r, LiveParts, ConcCap(r))
    \/ UploadBytes(r)
    \/ UploadWrite(r)
    \/ MessageNextField(r, LiveParts, ConcCap(r))
    \/ MessageText(r)

NextLive ==
    \/ Main
    \/ \E r \in Reqs :
        \/ Arrive(r, {"upload", "message"}, {None})
        \/ Handler(r)

SpecLive ==
    InitConc /\ [][NextLive]_vars /\ \A r \in Reqs : WF_vars(Handler(r))

---------------------------------------------------------------------------
(* Vocabulary of the claims *)

Range(f) == {f[i] : i \in DOMAIN f}

\* handle_upload has returned for request r.
Uploaded(r) == pc[r] = "done" /\ route[r] = "upload"

\* A file-bearing part: its file name is neither missing nor empty.
Named(p) == p.file_name \notin {None, Some(Empty)}

\* The positions of the file-bearing parts among the parts of r.
FileIndices(r) == {i \in 1..Len(seen[r]) : Named(seen[r][i])}

\* The fs::write calls, of any request, whose destination was name.
Targets(name) ==
    UNION { { <<q, i>> : i \in {j \in DOMAIN writes[q] :
                                   writes[q][j].name = name} } : q \in Reqs }

\* No token collision on name: it was not in the directory at startup and
\* exactly one fs::write call went to it.
Fresh(name) == name \notin startup /\ Cardinality(Targets(name)) = 1

\* The files that were not in the directory at startup.
NewFiles == DOMAIN disk \ startup

\* One file per file-bearing part of r, each new and holding its part's
\* payload, and no other new file.
OneFilePerPart(r) ==
    /\ Cardinality(NewFiles) = Cardinality(FileIndices(r))
    /\ \A i \in FileIndices(r) :
         \E w \in Range(writes[r]) :
            /\ w.part = i
            /\ w.name \in NewFiles
            /\ disk[w.name] = seen[r][i].data
    /\ \A v, w \in Range(writes[r]) : v.part # w.part => v.name # w.name

---------------------------------------------------------------------------
(* C1 *)

\* C1 as stated: after an upload in which no read or write failed, exactly
\* N new files exist, one per file-bearing part, each holding its part's
\* payload.  (Fails: two parts can draw the same destination name.)
C1_AsStated ==
    \A r \in Reqs :
       Uploaded(r) /\ cause[r] = "eof" => OneFilePerPart(r)

\* C1, amended: after an upload in which no read or write failed and every
\* destination name drawn was fresh (not in the directory at startup, drawn
\* once), exactly N new files exist, one per file-bearing part, each holding
\* its part's payload.
C1_NewFiles ==
    \A r \in Reqs :
       /\ Uploaded(r)
       /\ cause[r] = "eof"
       /\ \A w \in Range(writes[r]) : Fresh(w.name)
       => OneFilePerPart(r)

\* C1 witness: an upload of three parts, one skipped and two written under
\* fresh names, has returned.
C1_Witness ==
    \E r \in Reqs :
       /\ Uploaded(r)
       /\ cause[r] = "eof"
       /\ Len(seen[r]) = 3
       /\ Cardinality(FileIndices(r)) = 2
       /\ \A w \in Range(writes[r]) : Fresh(w.name)

---------------------------------------------------------------------------
(* C2 *)

\* C2 as stated: a request whose body exceeds the configured maximum is
\* rejected before a handler takes any step, and no file of it is written.
\* (Fails: without Content-Length the excess is found while the handler
\* reads, after earlier parts were written.)
C2_AsStated ==
    \A r \in Reqs :
       over[r] =>
          /\ status[r] = PAYLOAD_TOO_LARGE
          /\ seen[r] = <<>>
          /\ writes[r] = <<>>

---------------------------------------------------------------------------
(* C3 *)

\* The fs::write call made in this step by request r, when there is one.
Writing(r) == writes'[r] # writes[r]
Call(r) == writes'[r][Len(writes'[r])]

\* C3 as stated: no fs::write goes to a path at which a file exists, and
\* the content of an existing file is never replaced.  (Fails: the token is
\* drawn without looking at the directory, and two draws can agree.)
C3_AsStated ==
    [][ /\ \A r \in Reqs : Writing(r) => Call(r).name \notin DOMAIN disk
        /\ \A n \in DOMAIN disk : n \in DOMAIN disk' /\ disk'[n] = disk[n]
      ]_vars

\* The file name of the part an fs::write call of request q was made for.
NameOf(q, w) == Get(seen[q][w.part].file_name)

\* The stem and the extension of each file name the parts carry.
Stems == [f \in Sent |-> file_stem(f)]
Extensions == [f \in Sent |-> extension(f)]

\* An earlier fs::write call drew the token of w for a file name with the
\* stem and extension of fname.
DrawnBefore(fname, w) ==
    \E q \in Reqs : \E e \in Range(writes[q]) :
       /\ e.token = w.token
       /\ Stems[NameOf(q, e)] = Stems[fname]
       /\ Extensions[NameOf(q, e)] = Extensions[fname]

\* C3, amended: an fs::write goes to a path at which a file exists only when
\* that name was in the directory at startup or the token drawn equals the
\* token of an earlier write for a file name with the same stem and
\* extension; and a step replaces the content of no file but the one written.
C3_OnlyOnCollision ==
    [][ \A r \in Reqs :
          /\ Writing(r) /\ Call(r).name \in DOMAIN disk =>
                \/ Call(r).name \in startup
                \/ DrawnBefore(Get(seen[r][Call(r).part].file_name), Call(r))
          /\ \A n \in DOMAIN disk :
                /\ n \in DOMAIN disk'
                /\ disk'[n] # disk[n] =>
                      \E q \in Reqs : Writing(q) /\ Call(q).name = n
      ]_vars

\* C3 witness: two requests have written the same file name under
\* different tokens, and both files are on disk.
C3_Witness ==
    \E q, r \in Reqs : \E v \in Range(writes[q]) : \E w \in Range(writes[r]) :
       /\ q # r
       /\ v.ok /\ w.ok
       /\ NameOf(q, v) = NameOf(r, w)
       /\ v.token # w.token
       /\ v.name # w.name
       /\ {v.name, w.name} \subseteq DOMAIN disk

---------------------------------------------------------------------------
(* C4 *)

\* Request r carried exactly two file-bearing parts, i and j, with the same
\* file name, and handle_upload returned with no read or write failed.
TwoOfOneName(r, i, j) ==
    /\ Uploaded(r)
    /\ cause[r] = "eof"
    /\ i < j
    /\ FileIndices(r) = {i, j}
    /\ seen[r][i].file_name = seen[r][j].file_name

\* The fs::write call of r for part i.
CallFor(r, i) == CHOOSE w \in Range(writes[r]) : w.part = i

\* The two calls left two distinct files, each holding its own payload.
TwoDistinctFiles(r, i, j) ==
    LET v == CallFor(r, i)
        w == CallFor(r, j)
    IN  /\ v.name # w.name
        /\ {v.name, w.name} \subseteq DOMAIN disk
        /\ disk[v.name] = seen[r][i].data
        /\ disk[w.name] = seen[r][j].data

\* C4 as stated: two file-bearing parts with the same file name end as two
\* distinct files, each holding its own payload.  (Fails when the two
\* tokens drawn agree.)
C4_AsStated ==
    \A r \in Reqs : \A i, j \in 1..Len(seen[r]) :
       TwoOfOneName(r, i, j) => TwoDistinctFiles(r, i, j)

\* C4, amended: two file-bearing parts with the same file name end as two
\* distinct files, each holding its own payload, whenever the two tokens
\* drawn differ.
C4_DistinctTokens ==
    \A r \in Reqs : \A i, j \in 1..Len(seen[r]) :
       TwoOfOneName(r, i, j) /\ CallFor(r, i).token # CallFor(r, j).token
       => TwoDistinctFiles(r, i, j)

\* C4 witness: two parts named dup.txt with different payloads were written
\* under different tokens.
C4_Witness ==
    \E r \in Reqs : \E i, j \in 1..Len(seen[r]) :
       /\ TwoOfOneName(r, i, j)
       /\ seen[r][i].file_name = Some(DupTxt)
       /\ seen[r][i].data # seen[r][j].data
       /\ CallFor(r, i).token # CallFor(r, j).token

---------------------------------------------------------------------------
(* C5 *)

\* The write of the last part read by r failed and the request was aborted
\* with a server error: no part was read after it.
AbortedOnWrite(r) ==
    /\ pc[r] = "done"
    /\ status[r] = INTERNAL_SERVER_ERROR
    /\ writes[r] # <<>>
    /\ ~writes[r][Len(writes[r])].ok
    /\ writes[r][Len(writes[r])].part = Len(seen[r])
    /\ \A a \in 1..(Len(writes[r]) - 1) : writes[r][a].ok

\* C5 as stated: when the write of a part fails the request is aborted with
\* 500, the files written before remain on disk with their content, and
\* nothing is written for a later part.  (Fails when a later write, the
\* failed one included, went to the name of an earlier file.)
C5_AsStated ==
    \A r \in Reqs :
       cause[r] = "write_err" =>
          /\ AbortedOnWrite(r)
          /\ \A a \in 1..(Len(writes[r]) - 1) :
                /\ writes[r][a].name \in DOMAIN disk
                /\ disk[writes[r][a].name] = writes[r][a].data

\* C5, amended: when the write of a part fails the request is aborted with
\* 500, nothing is written for a later part, and every file written before
\* remains on disk, with its content unless a later write of the request
\* (the failed one included) went to the same destination name.
C5_NoRollback ==
    \A r \in Reqs :
       cause[r] = "write_err" =>
          /\ AbortedOnWrite(r)
          /\ \A a \in 1..(Len(writes[r]) - 1) :
                /\ writes[r][a].name \in DOMAIN disk
                /\ (\A b \in (a + 1)..Len(writes[r]) :
                       writes[r][b].name # writes[r][a].name)
                   => disk[writes[r][a].name] = writes[r][a].data

\* C5 witness: the second write of a request failed after the first one
\* had left its file.
C5_Witness ==
    \E r \in Reqs :
       /\ cause[r] = "write_err"
       /\ Len(writes[r]) = 2
       /\ writes[r][1].name # writes[r][2].name
       /\ disk[writes[r][1].name] = writes[r][1].data

---------------------------------------------------------------------------
(* C6 *)

\* The read of the payload of the last part yielded to r failed: the part
\* is file-bearing, no fs::write was called for it, every earlier call
\* returned Ok, and the request was aborted with a server error.
AbortedOnRead(r) ==
    /\ pc[r] = "done"
    /\ status[r] = INTERNAL_SERVER_ERROR
    /\ seen[r] # <<>>
    /\ Named(seen[r][Len(seen[r])])
    /\ \A w \in Range(writes[r]) : w.ok /\ w.part < Len(seen[r])

\* C6: when the read of a file-bearing part's payload fails, the request is
\* aborted at once with 500: no file is written for that part, and from then
\* on no part of the request is read, drained or written.
C6_AbortOnRead ==
    [][ \A r \in Reqs :
          /\ cause'[r] = "read_err" => AbortedOnRead(r)'
          /\ cause[r] = "read_err" =>
                /\ cause'[r] = "read_err"
                /\ seen'[r] = seen[r]
                /\ consumed'[r] = consumed[r]
                /\ undrained'[r] = undrained[r]
                /\ writes'[r] = writes[r]
                /\ disk' = disk
      ]_vars

\* C6 witness: a payload read failed after an earlier part was written.
C6_Witness ==
    \E r \in Reqs :
       /\ cause[r] = "read_err"
       /\ Len(seen[r]) = 2
       /\ Len(writes[r]) = 1
       /\ undrained[r] > 0

---------------------------------------------------------------------------
(* C7 *)

\* An fs::write call of r returned Err.
WriteFailed(r) == \E w \in Range(writes[r]) : ~w.ok

\* field.bytes() returned Err for the last part yielded to r: the part is
\* file-bearing and handle_upload returned without calling fs::write for it.
ReadFailed(r) ==
    /\ seen[r] # <<>>
    /\ Named(seen[r][Len(seen[r])])
    /\ \A w \in Range(writes[r]) : w.part # Len(seen[r])

\* C7: handle_upload answers 500 exactly when a payload read or a file write
\* failed, which then is the last thing it did, and 200 in every other
\* case.
C7_Status ==
    \A r \in Reqs :
       Uploaded(r) =>
          /\ status[r] \in {OK, INTERNAL_SERVER_ERROR}
          /\ status[r] = INTERNAL_SERVER_ERROR <=>
                (ReadFailed(r) \/ WriteFailed(r))
          /\ \A w \in Range(writes[r]) : ~w.ok => w.part = Len(seen[r])

\* C7 witness: handle_upload answered 200 after a part was skipped, a part
\* was written and the framing then broke.
C7_Witness ==
    \E r \in Reqs :
       /\ Uploaded(r)
       /\ status[r] = OK
       /\ cause[r] = "frame_err"
       /\ Len(seen[r]) = 2
       /\ Len(writes[r]) = 1

---------------------------------------------------------------------------
(* C8 *)

\* What handle_upload did for r: the fs::write calls as (file name, payload,
\* result), and the response status.
Observed(r) ==
    [calls |-> [a \in DOMAIN writes[r] |->
                   [file_name |-> seen[r][writes[r][a].part].file_name,
                    data |-> writes[r][a].data,
                    ok |-> writes[r][a].ok]],
     status |-> status[r]]

\* What handle_upload does for the parts ps, all of them named, when its
\* loop ends by how: every part is written, in order, but the last one when
\* its read or write failed.
Reference(ps, how) ==
    [calls |-> [a \in 1..(IF how = "read_err" THEN Len(ps) - 1 ELSE Len(ps))
                   |-> [file_name |-> ps[a].file_name,
                        data |-> ps[a].data,
                        ok |-> ~(how = "write_err" /\ a = Len(ps))]],
     status |-> IF how \in {"read_err", "write_err"}
                THEN INTERNAL_SERVER_ERROR ELSE OK]

\* C8: the parts with a missing or empty file name produce no file and no
\* error and do not change what is done for the other parts: the calls made
\* and the status are those for the request without them.
C8_SkippedParts ==
    \A r \in Reqs :
       Uploaded(r) =>
          Observed(r) = Reference(SelectSeq(seen[r], Named), cause[r])

\* C8 witness: a part without file name and a part with an empty one came
\* before a part that was written.
C8_Witness ==
    \E r \in Reqs :
       /\ Uploaded(r)
       /\ Len(seen[r]) = 3
       /\ seen[r][1].file_name = None
       /\ seen[r][2].file_name = Some(Empty)
       /\ Len(writes[r]) = 1
       /\ writes[r][1].ok
       /\ status[r] = OK

---------------------------------------------------------------------------
(* C9 *)

\* C9: when next_field returns Err the handler stops as at the end of the
\* parts: it answers 200, the step changes no file, makes no fs::write call
\* and prints nothing, and the files written for the earlier parts are kept.
C9_FramingError ==
    [][ \A r \in Reqs :
          cause'[r] = "frame_err" /\ cause[r] # "frame_err" =>
             /\ pc'[r] = "done"
             /\ status'[r] = OK
             /\ disk' = disk
             /\ writes' = writes
             /\ log' = log
             /\ events' = events
             /\ \A w \in Range(writes[r]) : w.ok => w.name \in DOMAIN disk'
      ]_vars

\* C9 witness: the framing broke after handle_upload had written a file.
C9_Witness ==
    \E r \in Reqs :
       /\ route[r] = "upload"
       /\ cause[r] = "frame_err"
       /\ status[r] = OK
       /\ writes[r] # <<>>
       /\ \A w \in Range(writes[r]) : w.ok /\ w.name \in DOMAIN disk

---------------------------------------------------------------------------
(* C10 *)

\* Request r met a payload read failure or a file write failure.
Failed(r) == cause[r] \in {"read_err", "write_err"}

\* The next step of r can succeed.
CanProceed(r) ==
    /\ pc[r] = "next_field" =>
          ENABLED (UploadNextField(r, ConcParts, ConcCap(r))
                     /\ cause'[r] = "eof")
    /\ pc[r] = "bytes" => ENABLED (UploadBytes(r) /\ pc'[r] = "write")
    /\ pc[r] = "write" => ENABLED (UploadWrite(r) /\ pc'[r] = "next_field")

\* C10: a read or write failure of one request leaves every other request
\* free to go on; a request that returns has made the calls and has the
\* status of its own parts alone, and when no failure of its own occurred it
\* has written every file-bearing part, each file holding its payload
\* unless another call went to the same name.
C10_Isolation ==
    \A q, r \in Reqs :
       q # r /\ Failed(q) =>
          /\ CanProceed(r)
          /\ Uploaded(r) =>
                /\ Observed(r) = Reference(SelectSeq(seen[r], Named), cause[r])
                /\ ~Failed(r) =>
                      \A i \in 1..Len(seen[r]) :
                         \E w \in Range(writes[r]) :
                            /\ w.part = i
                            /\ w.ok
                            /\ w.name \in DOMAIN disk
                            /\ Cardinality(Targets(w.name)) = 1 =>
                                  disk[w.name] = seen[r][i].data

\* C10 witness: one request was aborted with 500 while another wrote its
\* two parts and was answered 200.
C10_Witness ==
    \E q, r \in Reqs :
       /\ q # r
       /\ Failed(q)
       /\ status[q] = INTERNAL_SERVER_ERROR
       /\ Uploaded(r)
       /\ status[r] = OK
       /\ Len(seen[r]) = 2
       /\ Len(writes[r]) = 2
       /\ \A w \in Range(writes[r]) : w.ok /\ disk[w.name] = w.data

---------------------------------------------------------------------------
(* C11 *)

\* handle_message has returned for request r.
Messaged(r) == pc[r] = "done" /\ route[r] = "message"

\* The positions of the parts of r named "message".
MessageIndices(r) == {i \in 1..Len(seen[r]) : seen[r][i].name = MessageName}

\* C11: handle_message answers 200 whatever the parts of the request: while
\* it runs there is no status, and when it has returned the status is 200.
C11_AlwaysOk ==
    \A r \in Reqs :
       route[r] = "message" /\ pc[r] # "rejected" =>
          /\ status[r] \in {0, OK}
          /\ Messaged(r) => status[r] = OK

\* C11 witness: handle_message returned 200 for a request of three parts: a
\* part of another name, a blank message part and a message part whose
\* bytes are not valid text.
C11_Witness ==
    \E r \in Reqs :
       /\ Messaged(r)
       /\ status[r] = OK
       /\ Len(seen[r]) = 3
       /\ \E i, j, k \in 1..3 :
             /\ seen[r][i].name = NoteName
             /\ seen[r][j].name = MessageName /\ seen[r][j].data = <<Space>>
             /\ seen[r][k].name = MessageName /\ ~IsUtf8(seen[r][k].data)

---------------------------------------------------------------------------
(* C12 *)

\* Text t is whitespace only, and t without its leading and trailing
\* whitespace: what lies between its first and its last other character.
Blank(t) == \A i \in 1..Len(t) : t[i] = Space
Core(t) ==
    LET inner == {i \in 1..Len(t) : t[i] # Space}
        first == CHOOSE i \in inner : \A j \in inner : i <= j
        last == CHOOSE i \in inner : \A j \in inner : j <= i
    IN  SubSeq(t, first, last)

\* The events due for the results ts of field.text(), in order: one for
\* each Ok text that is not blank, carrying its core.
RECURSIVE EventsFor(_)
EventsFor(ts) ==
    IF ts = <<>> THEN <<>>
    ELSE LET e == ts[Len(ts)]
             due == IF e.text = None THEN <<>>
                    ELSE IF Blank(Get(e.text)) THEN <<>>
                    ELSE <<Core(Get(e.text))>>
         IN  EventsFor(SubSeq(ts, 1, Len(ts) - 1)) \o due

\* The results of field.text() for part i of request r.
TextsOf(r, i) == {k \in DOMAIN texts[r] : texts[r][k].part = i}

\* C12: the events of a request are those of the texts read from its parts
\* named "message", one for each text that is not blank, carrying the
\* trimmed text; the text of such a part is read once, and is the part's
\* bytes when they are valid text; no other part is read or gives an event.
C12_EventIffText ==
    \A r \in Reqs :
       /\ events[r] = EventsFor(texts[r])
       /\ \A e \in Range(texts[r]) : e.part \in MessageIndices(r)
       /\ route[r] = "message" =>
             \A i \in MessageIndices(r) :
                i < Len(seen[r]) \/ pc[r] # "text" =>
                   /\ Cardinality(TextsOf(r, i)) = 1
                   /\ \A k \in TextsOf(r, i) :
                         texts[r][k].text # None /\ IsUtf8(seen[r][i].data)
                            => texts[r][k].text = Some(seen[r][i].data)

\* C12 witness: of a part of another name, a blank message part and a
\* message part " h ", all read, the last alone gave an event, with text "h".
C12_Witness ==
    \E r \in Reqs :
       /\ Messaged(r)
       /\ Len(seen[r]) = 3
       /\ \E i, j, k \in 1..3 :
             /\ seen[r][i].name = NoteName
             /\ seen[r][j].name = MessageName /\ seen[r][j].data = <<Space>>
             /\ seen[r][k].name = MessageName
             /\ seen[r][k].data = <<Space, LetterH, Space>>
       /\ \A e \in Range(texts[r]) : e.text # None
       /\ events[r] = << <<LetterH>> >>

---------------------------------------------------------------------------
(* C13 *)

\* Request r contained a part named "message" whose text, as field.text()
\* returned it, is not empty after trimming.
HasText(r) ==
    \E e \in Range(texts[r]) : e.text # None /\ ~Blank(Get(e.text))

\* C13 as stated, for the requests whose parts are all valid text: when
\* handle_message has returned, the request has given exactly one event if
\* it contained a part named "message" with a text that is not blank, and
\* none otherwise.  (Fails: the loop goes on after the first such part, and
\* prints an event for each one.)
C13_AsStated ==
    \A r \in Reqs :
       Messaged(r) /\ (\A p \in Range(seen[r]) : IsUtf8(p.data)) =>
          Len(events[r]) = (IF HasText(r) THEN 1 ELSE 0)

---------------------------------------------------------------------------
(* C14 *)

\* The stem and the extension (with its leading dot, empty when there is
\* none) of each file name of FileNames.
StemAndExtension ==
    (PhotoJpg :> << <<"p", "h", "o", "t", "o">>, <<".", "j", "p", "g">> >>) @@
    (NoExt :> << <<"n">>, <<>> >>) @@
    (DotRc :> << <<".", "r", "c">>, <<>> >>) @@
    (TwoDots :> << <<"a", ".", "b">>, <<".", "c">> >>) @@
    (TrailingDot :> << <<"x">>, <<".">> >>) @@
    (UnderParent :> << <<"x">>, <<".", "y">> >>) @@
    (Absolute :> << <<"p">>, <<>> >>) @@
    (TrailingSlash :> << <<"d">>, <<>> >>) @@
    (Parent :> << <<>>, <<>> >>)

---------------------------------------------------------------------------
(* C15 *)

\* A request was dispatched: it is past the accept of its connection.
Dispatched(r) == pc[r] # "idle"

\* C15: when a startup step has failed (the creation of the upload
\* directory, the loading of the certificate and key, the binding of the
\* port) the process has exited and no request was dispatched; a request is
\* dispatched only when main serves, every step having succeeded; and the
\* exited process takes no further step.
C15_FailFast ==
    /\ [](/\ panicked => main = "exited" /\ \A r \in Reqs : ~Dispatched(r)
          /\ \A r \in Reqs : Dispatched(r) => main = "serve" /\ ~panicked)
    /\ [][main = "exited" => UNCHANGED vars]_vars

\* C15 witness: a startup step failed and the process exited.
C15_Witness == panicked /\ main = "exited"

---------------------------------------------------------------------------
(* C16 *)

\* The fs::write calls of r that returned Ok, in order.
Succeeded(w) == w.ok
Written(r) == SelectSeq(writes[r], Succeeded)

\* C16: the FILE lines of a request are, in order, one per fs::write call
\* that returned Ok, with the name and the payload size of that call (so a
\* skipped part, a failed read and a failed write give none); and a line is
\* printed in the step in which the write returns Ok, the file then holding
\* the payload, and before the next part is read.
C16_FileLines ==
    /\ [](\A r \in Reqs :
            /\ Len(log[r]) = Len(Written(r))
            /\ \A k \in 1..Len(log[r]) :
                  /\ log[r][k].name = Written(r)[k].name
                  /\ log[r][k].size = Len(seen[r][Written(r)[k].part].data))
    /\ [][\A r \in Reqs :
            log'[r] # log[r] =>
               /\ pc[r] = "write" /\ pc'[r] = "next_field"
               /\ seen'[r] = seen[r]
               /\ Len(log'[r]) = Len(log[r]) + 1
               /\ Writing(r) /\ Call(r).ok
               /\ Call(r).name \in DOMAIN disk'
               /\ disk'[Call(r).name] = seen[r][Len(seen[r])].data
         ]_vars

\* C16 witness: of three parts, one was skipped, one written and one failed
\* to be written, and the request has one FILE line.
C16_Witness ==
    \E r \in Reqs :
       /\ Uploaded(r)
       /\ Len(seen[r]) = 3
       /\ \E i \in 1..3 : ~Named(seen[r][i])
       /\ Len(writes[r]) = 2
       /\ writes[r][1].ok /\ ~writes[r][2].ok
       /\ Len(log[r]) = 1
       /\ log[r][1].size = 2

---------------------------------------------------------------------------
(* C17 *)

\* Part j of r has its file: an fs::write call for it returned Ok and the
\* name it wrote to is in the upload directory.
HasFile(r, j) ==
    \E v \in Range(writes[r]) : v.part = j /\ v.ok /\ v.name \in DOMAIN disk

\* C17: the parts of an upload are taken in order and one at a time: the
\* fs::write calls are in the order of the parts, at most one per part;
\* every file-bearing part before the last part read has its file, so the
\* parts with a file are the file-bearing parts of a prefix of the parts,
\* also after an abort; and a step reads at most one part, at the loop head,
\* added at the end of the parts read.
C17_Prefix ==
    /\ [](\A r \in Reqs :
            route[r] = "upload" =>
               /\ \A a, b \in DOMAIN writes[r] :
                     a < b => writes[r][a].part < writes[r][b].part
               /\ \A w \in Range(writes[r]) : w.part \in FileIndices(r)
               /\ \A j \in FileIndices(r) :
                     j < Len(seen[r]) => HasFile(r, j)
               /\ \A j \in FileIndices(r) :
                     HasFile(r, j) =>
                        \A i \in FileIndices(r) : i < j => HasFile(r, i))
    /\ [][\A r \in Reqs :
            seen'[r] # seen[r] =>
               /\ pc[r] = "next_field"
               /\ Len(seen'[r]) = Len(seen[r]) + 1
               /\ SubSeq(seen'[r], 1, Len(seen[r])) = seen[r]
         ]_vars

\* C17 witness: an upload was aborted at its third part, whose write
\* failed; its first two parts have their files and the third has none.
C17_Witness ==
    \E r \in Reqs :
       /\ Uploaded(r)
       /\ cause[r] = "write_err"
       /\ FileIndices(r) = 1..3
       /\ HasFile(r, 1) /\ HasFile(r, 2) /\ ~HasFile(r, 3)
       /\ writes[r][3].name \notin DOMAIN disk

---------------------------------------------------------------------------
(* C18 *)

\* Path dest is a direct child of directory dir: dir, a separator and one
\* name that is not ".", ".." or empty and holds no separator.
DirectChild(dest, dir) ==
    \E n \in 1..Len(dest) :
       LET name == SubSeq(dest, n + 1, Len(dest))
       IN  /\ SubSeq(dest, 1, n) = dir \o <<"/">>
           /\ name \notin {<<>>, <<".">>, <<".", ".">>}
           /\ "/" \notin Range(name)

\* C18: the path of every fs::write call is a direct child of the upload
\* directory, whatever the file name of the part, and its last component is
\* the destination name.
C18_DirectChild ==
    \A r \in Reqs : \A w \in Range(writes[r]) :
       /\ DirectChild(w.dest, upload_dir)
       /\ w.dest = upload_dir \o <<"/">> \o w.name

\* C18 witness: parts with the file names "../x.y" and "/e/p" were written,
\* to x-<token>.y and p-<token> in the upload directory.
C18_Witness ==
    \E r \in Reqs :
       /\ Len(writes[r]) = 2
       /\ NameOf(r, writes[r][1]) = UnderParent
       /\ NameOf(r, writes[r][2]) = Absolute
       /\ writes[r][1].ok /\ writes[r][2].ok
       /\ \E t, u \in {w.token : w \in Range(writes[r])} :
             DOMAIN disk = { <<"x", "-">> \o t \o <<".", "y">>,
                             <<"p", "-">> \o u }

---------------------------------------------------------------------------
(* C19 *)

\* How far the handler of r is: three steps per part read (the read of its
\* payload, the write, the return to the loop head), and the return.
Progress(r) ==
    3 * Len(seen[r]) +
    (CASE pc[r] = "idle" -> 0
       [] pc[r] \in {"bytes", "text"} -> 1
       [] pc[r] = "write" -> 2
       [] pc[r] = "next_field" -> 3
       [] OTHER -> 4)

\* What a step of the handler of r changes.
Own(r) == <<pc[r], seen[r], status[r], cause[r], writes[r], texts[r],
            log[r], events[r]>>

\* C19: a dispatched request is eventually answered, with 200 or 500; it has
\* a status exactly when its handler has returned, and nothing of it changes
\* afterwards (one response); every step of its handler takes it further
\* (no loop on a part), and there is at most one fs::write call and one
\* field.text() call per part (no retry).
C19_OneResponse ==
    /\ \A r \in Reqs :
          Dispatched(r) ~>
             (pc[r] = "done" /\ status[r] \in {OK, INTERNAL_SERVER_ERROR})
    /\ [](\A r \in Reqs :
            /\ status[r] # 0 <=> pc[r] = "done"
            /\ \A v, w \in DOMAIN writes[r] :
                  writes[r][v].part = writes[r][w].part => v = w
            /\ \A v, w \in DOMAIN texts[r] :
                  texts[r][v].part = texts[r][w].part => v = w)
    /\ [][\A r \in Reqs :
            Own(r)' # Own(r) =>
               /\ pc[r] # "done"
               /\ Progress(r)' > Progress(r)
         ]_vars

\* C19 witness: with two requests in flight, an upload was answered 500
\* after a failed write and a message request was answered 200.
C19_Witness ==
    \E q, r \in Reqs :
       /\ Uploaded(q)
       /\ cause[q] = "write_err"
       /\ status[q] = INTERNAL_SERVER_ERROR
       /\ Messaged(r)
       /\ status[r] = OK
       /\ events[r] # <<>>

===========================================================================
